---- MODULE Spec2Model ----
(***************************************************************************)
(* Breakout detector (src/analyzer.py), its legacy form                    *)
(* (src/backTesting/analyzer.py), position simulator and market classifier *)
(* (src/backTesting/manager.py) of the stock scanner.                      *)
(*                                                                         *)
(* Floating point values are exact rationals [n, d] with d >= 1; the       *)
(* value with d = 0 is NaN (pandas' missing value).  Dates are day         *)
(* numbers counted from START_DATE.  Python's None is the empty tuple and  *)
(* a set optional value x is <<x>>.                                        *)
(***************************************************************************)
EXTENDS Integers, Sequences, FiniteSets, TLC

(***************************************************************************)
(* Bounds of the model.                                                    *)
(***************************************************************************)
MaxBars == 3
MaxBreakout == 2
MaxMultiplier == 2
MaxNameLen == 4
MaxTickers == 3
MaxSignals == 2

(***************************************************************************)
(* Program constants (src/config.py).                                      *)
(***************************************************************************)
DEFAULT_ATR_PERIOD == 20
DEFAULT_VOLUME_PERIOD == 20
ATR_MULTIPLE == 2
TAKE_PROFIT_MULTIPLE == 4
EXPIRY_DAYS == 10
LEGACY_WINDOW == 20
SCAN_VOLUME_MULTIPLIER == 4
SCAN_BREAKOUT_DAYS == 12
SCAN_MAX_DAYS_OLD == 1
START_DATE == 0

(***************************************************************************)
(* Numbers: exact rationals with NaN.                                      *)
(***************************************************************************)
None == << >>
Some(x) == << x >>

NaN == [n |-> 0, d |-> 0]
IsNaN(x) == x.d = 0

AbsInt(i) == IF i < 0 THEN -i ELSE i

RECURSIVE GCD(_, _)
GCD(a, b) == IF b = 0 THEN a ELSE GCD(b, a % b)

Rat(n, d) ==
    IF d = 0 THEN NaN
    ELSE IF d = 1 THEN [n |-> n, d |-> 1]
    ELSE LET s == IF d < 0 THEN -1 ELSE 1
             g == GCD(AbsInt(n), AbsInt(d))
         IN  [n |-> (s * n) \div g, d |-> (s * d) \div g]

Num(i) == [n |-> i, d |-> 1]

Add(a, b) == IF IsNaN(a) \/ IsNaN(b) THEN NaN ELSE Rat(a.n * b.d + b.n * a.d, a.d * b.d)
Sub(a, b) == IF IsNaN(a) \/ IsNaN(b) THEN NaN ELSE Rat(a.n * b.d - b.n * a.d, a.d * b.d)
Mul(a, b) == IF IsNaN(a) \/ IsNaN(b) THEN NaN ELSE Rat(a.n * b.n, a.d * b.d)
Div(a, b) == IF IsNaN(a) \/ IsNaN(b) THEN NaN ELSE Rat(a.n * b.d, a.d * b.n)
Abs(a) == IF IsNaN(a) THEN NaN ELSE [n |-> AbsInt(a.n), d |-> a.d]

\* Python comparisons: any comparison with NaN is False.
Lt(a, b) == ~IsNaN(a) /\ ~IsNaN(b) /\ a.n * b.d < b.n * a.d
Le(a, b) == ~IsNaN(a) /\ ~IsNaN(b) /\ a.n * b.d <= b.n * a.d
Gt(a, b) == Lt(b, a)
Ge(a, b) == Le(b, a)

\* Maximum that skips NaN (pandas max with skipna), NaN when both are NaN.
Max2(a, b) == IF IsNaN(a) THEN b ELSE IF IsNaN(b) THEN a ELSE IF Lt(a, b) THEN b ELSE a

MaxInt(a, b) == IF a < b THEN b ELSE a

(***************************************************************************)
(* Windowed statistics over a column col (a function 1..n -> number).      *)
(* rolling(window, min_periods) looks at rows i-window+1..i, ignores NaN   *)
(* entries and yields NaN when fewer than min_periods entries remain.      *)
(***************************************************************************)
RECURSIVE WinCount(_, _, _)
WinCount(col, lo, hi) ==
    IF lo > hi THEN 0
    ELSE (IF IsNaN(col[hi]) THEN 0 ELSE 1) + WinCount(col, lo, hi - 1)

RECURSIVE WinSum(_, _, _)
WinSum(col, lo, hi) ==
    IF lo > hi THEN Num(0)
    ELSE IF IsNaN(col[hi]) THEN WinSum(col, lo, hi - 1)
    ELSE Add(col[hi], WinSum(col, lo, hi - 1))

RECURSIVE WinMax(_, _, _)
WinMax(col, lo, hi) ==
    IF lo > hi THEN NaN ELSE Max2(col[hi], WinMax(col, lo, hi - 1))

RollingMean(col, i, window, min_periods) ==
    LET lo == MaxInt(1, i - window + 1)
        c  == WinCount(col, lo, i)
    IN  IF c < min_periods \/ c = 0 THEN NaN ELSE Div(WinSum(col, lo, i), Num(c))

RollingMax(col, i, window, min_periods) ==
    LET lo == MaxInt(1, i - window + 1)
    IN  IF WinCount(col, lo, i) < min_periods THEN NaN ELSE WinMax(col, lo, i)

\* Series.shift(): the previous row's value, NaN on the first row.
Shift(col, i) == IF i > 1 THEN col[i - 1] ELSE NaN

Column(w, name) == [i \in 1..Len(w) |-> w[i][name]]

\* A computed column, held as the sequence of its values.
RECURSIVE Materialize(_, _)
Materialize(col, n) ==
    IF n = 0 THEN << >> ELSE Append(Materialize(col, n - 1), col[n])

true_range(w) ==
    Materialize([i \in 1..Len(w) |->
        LET high_low   == Sub(w[i].High, w[i].Low)
            high_close == Abs(Sub(w[i].High, Shift(Column(w, "Close"), i)))
            low_close  == Abs(Sub(w[i].Low, Shift(Column(w, "Close"), i)))
        IN  Max2(Max2(high_low, high_close), low_close)], Len(w))

calculate_atr(w, period) ==
    LET tr == true_range(w)
    IN  Materialize([i \in 1..Len(w) |-> RollingMean(tr, i, period, 1)], Len(w))

(***************************************************************************)
(* sort_values('Date').reset_index(drop=True): insertion sort by date;     *)
(* rows of equal date keep their order.                                    *)
(***************************************************************************)
RECURSIVE InsertByDate(_, _)
InsertByDate(s, b) ==
    IF s = << >> THEN << b >>
    ELSE IF s[Len(s)].Date <= b.Date THEN Append(s, b)
    ELSE Append(InsertByDate(SubSeq(s, 1, Len(s) - 1), b), s[Len(s)])

RECURSIVE SortByDate(_)
SortByDate(s) ==
    IF s = << >> THEN << >>
    ELSE InsertByDate(SortByDate(SubSeq(s, 1, Len(s) - 1)), s[Len(s)])

(***************************************************************************)
(* Breakout detector: analyze_stock of src/analyzer.py.                    *)
(* Row indices are 0-based as in the code; row c is w[c + 1].              *)
(***************************************************************************)
avg_volume_at(w, c) ==
    RollingMean(Column(w, "Volume"), c + 1, DEFAULT_VOLUME_PERIOD, 1)

volume_threshold_at(w, c, volume_multiplier) ==
    Mul(avg_volume_at(w, c), volume_multiplier)

\* high.rolling(window, min_periods = window).max().shift(1) at row c
high_rolling_max_at(w, c, breakout_days) ==
    IF c = 0 THEN NaN
    ELSE RollingMax(Column(w, "High"), c, breakout_days, breakout_days)

any_isna(vals) == \E k \in 1..Len(vals) : IsNaN(vals[k])

\* Mutant: a close equal to the prior high counts as a breakout.
is_breakout_inclusive(close_today, high_prev, volume_today, volume_thresh) ==
    Ge(close_today, high_prev) /\ Gt(volume_today, volume_thresh)

is_breakout(close_today, high_prev, volume_today, volume_thresh) ==
    Gt(close_today, high_prev) /\ Gt(volume_today, volume_thresh)

\* Mutant: the recency window is one row short.
recent_cutoff_index_off_by_one(total_days, max_days_old) ==
    IF max_days_old # None THEN MaxInt(0, total_days - max_days_old[1] + 1) ELSE 0

recent_cutoff_index(total_days, max_days_old) ==
    IF max_days_old # None THEN MaxInt(0, total_days - max_days_old[1]) ELSE 0

make_signal(w, atr, c, volume_multiplier, breakout_days) ==
    LET avg == avg_volume_at(w, c)
    IN  [date                 |-> w[c + 1].Date,
         action               |-> "BUY",
         price                |-> w[c + 1].Close,
         atr                  |-> atr[c + 1],
         breakout_high        |-> high_rolling_max_at(w, c, breakout_days),
         volume               |-> w[c + 1].Volume,
         avg_volume_threshold |-> volume_threshold_at(w, c, volume_multiplier),
         volume_ratio         |-> IF Gt(avg, Num(0))
                                  THEN Div(w[c + 1].Volume, avg) ELSE Num(0)]

\* Mutant: a new signal is put at the head of the list.
scan_row_prepend(w, atr, c, signals, volume_multiplier, breakout_days, cutoff) ==
    LET high_prev     == high_rolling_max_at(w, c, breakout_days)
        close_today   == w[c + 1].Close
        volume_today  == w[c + 1].Volume
        atr_today     == atr[c + 1]
        volume_thresh == volume_threshold_at(w, c, volume_multiplier)
    IN  IF any_isna(<< high_prev, close_today, volume_today, atr_today, volume_thresh >>)
        THEN signals
        ELSE IF is_breakout(close_today, high_prev, volume_today, volume_thresh)
                /\ c >= cutoff
        THEN << make_signal(w, atr, c, volume_multiplier, breakout_days) >> \o signals
        ELSE signals

\* One pass of the main loop body for row c: the signals list after it.
scan_row(w, atr, c, signals, volume_multiplier, breakout_days, cutoff) ==
    LET high_prev     == high_rolling_max_at(w, c, breakout_days)
        close_today   == w[c + 1].Close
        volume_today  == w[c + 1].Volume
        atr_today     == atr[c + 1]
        volume_thresh == volume_threshold_at(w, c, volume_multiplier)
    IN  IF any_isna(<< high_prev, close_today, volume_today, atr_today, volume_thresh >>)
        THEN signals
        ELSE IF is_breakout(close_today, high_prev, volume_today, volume_thresh)
                /\ c >= cutoff
        THEN Append(signals, make_signal(w, atr, c, volume_multiplier, breakout_days))
        ELSE signals

\* for current_index in range(breakout_days, total_days)
RECURSIVE scan_rows(_, _, _, _, _, _)
scan_rows(w, atr, c, volume_multiplier, breakout_days, cutoff) ==
    IF c < breakout_days THEN << >>
    ELSE scan_row(w, atr, c,
                  scan_rows(w, atr, c - 1, volume_multiplier, breakout_days, cutoff),
                  volume_multiplier, breakout_days, cutoff)

\* The result of a call: the error raised, or the signals returned.
Raised(e) == [raised |-> e, signals |-> << >>]
Returned(s) == [raised |-> "", signals |-> s]

REQUIRED_COLUMNS == {"High", "Low", "Close", "Volume", "Date"}
numeric_cols == {"High", "Low", "Close", "Volume"}

\* A value that is not a number (a column holding one has dtype object).
Text(s) == [text |-> s]
IsNumber(x) == DOMAIN x = {"n", "d"}

\* df.columns: every row of a frame carries the same fields.
columns(df) == DOMAIN df[1]

is_numeric_dtype(df, col) == \A i \in 1..Len(df) : IsNumber(df[i][col])

validate_dataframe(df) ==
    IF df = << >> THEN "ValueError"
    ELSE IF REQUIRED_COLUMNS \ columns(df) # {} THEN "ValueError"
    ELSE IF \E col \in numeric_cols : ~is_numeric_dtype(df, col) THEN "ValueError"
    ELSE ""

\* Mutant: max_days_old = 0 is accepted.
analyze_stock_zero_days_old(df, volume_multiplier, breakout_days, max_days_old) ==
    IF validate_dataframe(df) # "" THEN Raised(validate_dataframe(df))
    ELSE IF Le(volume_multiplier, Num(0)) THEN Raised("ValueError")
    ELSE IF breakout_days <= 0 THEN Raised("ValueError")
    ELSE IF max_days_old # None /\ max_days_old[1] < 0 THEN Raised("ValueError")
    ELSE LET df_work    == SortByDate(df)
             atr        == calculate_atr(df_work, DEFAULT_ATR_PERIOD)
             total_days == Len(df_work)
             cutoff     == recent_cutoff_index(total_days, max_days_old)
         IN  Returned(scan_rows(df_work, atr, total_days - 1,
                                volume_multiplier, breakout_days, cutoff))

analyze_stock(df, volume_multiplier, breakout_days, max_days_old) ==
    IF validate_dataframe(df) # "" THEN Raised(validate_dataframe(df))
    ELSE IF Le(volume_multiplier, Num(0)) THEN Raised("ValueError")
    ELSE IF breakout_days <= 0 THEN Raised("ValueError")
    ELSE IF max_days_old # None /\ max_days_old[1] <= 0 THEN Raised("ValueError")
    ELSE LET df_work    == SortByDate(df)
             atr        == calculate_atr(df_work, DEFAULT_ATR_PERIOD)
             total_days == Len(df_work)
             cutoff     == recent_cutoff_index(total_days, max_days_old)
         IN  Returned(scan_rows(df_work, atr, total_days - 1,
                                volume_multiplier, breakout_days, cutoff))

\* Mutant: the frame is sorted and given its ATR column in place.
frame_after_analyze_in_place(df) ==
    IF df = << >> THEN df
    ELSE LET df_work == SortByDate(df)
             atr     == calculate_atr(df_work, DEFAULT_ATR_PERIOD)
         IN  [i \in 1..Len(df_work) |->
                 [f \in (DOMAIN df_work[i]) \cup {"ATR"} |->
                     IF f = "ATR" THEN atr[i] ELSE df_work[i][f]]]

\* The caller's frame after analyze_stock has returned or raised: lines 77 and
\* 83 sort a copy and store the ATR column in that copy.
frame_after_analyze(df) == df

analyze_stock_backtest(df, volume_multiplier, breakout_days) ==
    analyze_stock(df, volume_multiplier, breakout_days, None)

\* analyze_stock called with arguments of which any may be None (given here as
\* None or Some(x)): the comparison None <= 0 of lines 69 and 71 raises
\* TypeError, after validate_dataframe and in the order of the lines.
analyze_stock_call(df, volume_multiplier, breakout_days, max_days_old) ==
    IF validate_dataframe(df) # "" THEN Raised(validate_dataframe(df))
    ELSE IF volume_multiplier = None THEN Raised("TypeError")
    ELSE IF Le(volume_multiplier[1], Num(0)) THEN Raised("ValueError")
    ELSE IF breakout_days = None THEN Raised("TypeError")
    ELSE analyze_stock(df, volume_multiplier[1], breakout_days[1], max_days_old)

(***************************************************************************)
(* The legacy detector: analyze_stock of src/backTesting/analyzer.py.      *)
(* rolling(20) has min_periods = 20: a mean needs 20 values in its window. *)
(***************************************************************************)
legacy_atr(w) ==
    LET ranges == true_range(w)
    IN  Materialize([i \in 1..Len(w) |->
                        RollingMean(ranges, i, LEGACY_WINDOW, LEGACY_WINDOW)], Len(w))

legacy_avg_volume_at(w, i) ==
    RollingMean(Column(w, "Volume"), i + 1, LEGACY_WINDOW, LEGACY_WINDOW)

\* df["High"].iloc[i - breakout_days:i].max()
legacy_high_prev(w, i, breakout_days) == WinMax(Column(w, "High"), i - breakout_days + 1, i)

legacy_scan_row(w, atr, i, signals, volume_multiplier, breakout_days) ==
    IF /\ Gt(w[i + 1].Close, legacy_high_prev(w, i, breakout_days))
       /\ Gt(w[i + 1].Volume, Mul(legacy_avg_volume_at(w, i), volume_multiplier))
       /\ ~IsNaN(atr[i + 1])
    THEN Append(signals, [date |-> w[i + 1].Date, action |-> "BUY",
                          price |-> w[i + 1].Close, atr |-> atr[i + 1]])
    ELSE signals

RECURSIVE legacy_scan_rows(_, _, _, _, _)
legacy_scan_rows(w, atr, i, volume_multiplier, breakout_days) ==
    IF i < breakout_days THEN << >>
    ELSE legacy_scan_row(w, atr, i,
                         legacy_scan_rows(w, atr, i - 1, volume_multiplier, breakout_days),
                         volume_multiplier, breakout_days)

legacy_analyze_stock(df, volume_multiplier, breakout_days) ==
    Returned(legacy_scan_rows(df, legacy_atr(df), Len(df) - 1,
                              volume_multiplier, breakout_days))

\* The caller's frame after the legacy detector has stored its ATR column in it.
legacy_frame_after(df) ==
    LET atr == legacy_atr(df)
    IN  [i \in 1..Len(df) |-> [f \in (DOMAIN df[i]) \cup {"ATR"} |->
                                    IF f = "ATR" THEN atr[i] ELSE df[i][f]]]

(***************************************************************************)
(* Market classifier: get_market_from_filename, src/backTesting/manager.py. *)
(* A string is the sequence of its characters.                             *)
(***************************************************************************)
MARKET_SUFFIXES ==
    << "N", "S" >> :> "India"       @@ << "D", "E" >> :> "Germany" @@
    << "P", "A" >> :> "France"      @@ << "M", "I" >> :> "Italy" @@
    << "A", "S" >> :> "Netherlands" @@ << "L" >> :> "UK" @@
    << "S", "S" >> :> "China"       @@ << "S", "Z" >> :> "China" @@
    << "T" >> :> "Japan"            @@ << "H", "K" >> :> "Hong Kong" @@
    << "T", "W" >> :> "Taiwan"      @@ << "K", "S" >> :> "South Korea" @@
    << "T", "A" >> :> "Tel Aviv"    @@ << "I", "L" >> :> "Israel"

\* str.upper() on the letters the names below are written with.
UpperChar(c) ==
    CASE c = "n" -> "N" [] c = "s" -> "S" [] c = "y" -> "Y" [] OTHER -> c
upper(str) == [i \in 1..Len(str) |-> UpperChar(str[i])]

Occurrences(str, c) == {i \in 1..Len(str) : str[i] = c}
MinOf(S) == CHOOSE i \in S : \A j \in S : i <= j
MaxOf(S) == CHOOSE i \in S : \A j \in S : i >= j

\* str.split(c)[0], str.split(c)[1] and str.split(c)[-1]
split_first(str, c) ==
    IF Occurrences(str, c) = {} THEN str
    ELSE SubSeq(str, 1, MinOf(Occurrences(str, c)) - 1)
split_second(str, c) ==
    LET rest == SubSeq(str, MinOf(Occurrences(str, c)) + 1, Len(str))
    IN  split_first(rest, c)
split_last(str, c) ==
    IF Occurrences(str, c) = {} THEN str
    ELSE SubSeq(str, MaxOf(Occurrences(str, c)) + 1, Len(str))

\* dict.get(key, default)
dict_get(dict, key, default) == IF key \in DOMAIN dict THEN dict[key] ELSE default

\* Mutant: the suffix is the text between the first and the second dot.
get_market_from_filename_first_dot(filename) ==
    LET ticker_part == split_first(filename, "_")
    IN  IF Occurrences(ticker_part, ".") = {} THEN "USA"
        ELSE dict_get(MARKET_SUFFIXES, upper(split_second(ticker_part, ".")), "Unknown")

get_market_from_filename(filename) ==
    LET ticker_part == split_first(filename, "_")
    IN  IF Occurrences(ticker_part, ".") = {} THEN "USA"
        ELSE dict_get(MARKET_SUFFIXES, upper(split_last(ticker_part, ".")), "Unknown")

(***************************************************************************)
(* The daily scan: analyze_tickers_for_signals, src/manager.py.  A frame   *)
(* of the download is the ticker whose columns it holds and its rows.      *)
(***************************************************************************)
\* extract_single_ticker_df(df, ticker), for a ticker that is not blank
extract_single_ticker_df(df, ticker) ==
    IF df.of # ticker THEN [raised |-> "KeyError", frame |-> << >>]
    ELSE IF df.rows = << >> THEN [raised |-> "ValueError", frame |-> << >>]
    ELSE [raised |-> "", frame |-> df.rows]

\* The body of the try block for a frame: the signals_list, or the exception.
analyze_ticker(df, ticker) ==
    LET df_clean == extract_single_ticker_df(df, ticker)
    IN  IF df_clean.raised # "" THEN Raised(df_clean.raised)
        ELSE analyze_stock(df_clean.frame, Num(SCAN_VOLUME_MULTIPLIER),
                           SCAN_BREAKOUT_DAYS, Some(SCAN_MAX_DAYS_OLD))

\* Mutant: a ticker is reported whenever its analysis returned.
scan_ticker_any_result(found, ticker, data) ==
    LET df == dict_get(data, ticker, None)
    IN  IF df = None THEN found
        ELSE IF analyze_ticker(df, ticker).raised = "" THEN Append(found, ticker)
        ELSE found

\* One iteration of the loop over tickers: the list of tickers found after it.
scan_ticker(found, ticker, data) ==
    LET df == dict_get(data, ticker, None)
    IN  IF df = None THEN found
        ELSE IF analyze_ticker(df, ticker).raised # "" THEN found
        ELSE IF analyze_ticker(df, ticker).signals # << >> THEN Append(found, ticker)
        ELSE found

(***************************************************************************)
(* Position simulator: src/backTesting/manager.py.                         *)
(***************************************************************************)
\* atr is None or pd.isna(atr)
atr_missing(atr) == IsNaN(atr)

\* Mutant: the take-profit distance uses the stop multiple.
make_position_stop_multiple(signal, market) ==
    [entry_date   |-> signal.date,
     entry_price  |-> signal.price,
     max_price    |-> signal.price,
     stop_loss    |-> Sub(signal.price, Mul(Num(ATR_MULTIPLE), signal.atr)),
     take_profit  |-> Add(signal.price, Mul(Num(ATR_MULTIPLE), signal.atr)),
     expiry_date  |-> signal.date + EXPIRY_DAYS,
     status       |-> "OPEN",
     exit_date    |-> None,
     exit_price   |-> None,
     pct_change   |-> None,
     atr          |-> signal.atr,
     market       |-> market]

make_position(signal, market) ==
    [entry_date   |-> signal.date,
     entry_price  |-> signal.price,
     max_price    |-> signal.price,
     stop_loss    |-> Sub(signal.price, Mul(Num(ATR_MULTIPLE), signal.atr)),
     take_profit  |-> Add(signal.price, Mul(Num(TAKE_PROFIT_MULTIPLE), signal.atr)),
     expiry_date  |-> signal.date + EXPIRY_DAYS,
     status       |-> "OPEN",
     exit_date    |-> None,
     exit_price   |-> None,
     pct_change   |-> None,
     atr          |-> signal.atr,
     market       |-> market]

RECURSIVE create_positions_from_signals(_, _)
create_positions_from_signals(sigs, market) ==
    IF sigs = << >> THEN << >>
    ELSE LET rest   == create_positions_from_signals(SubSeq(sigs, 1, Len(sigs) - 1), market)
             signal == sigs[Len(sigs)]
         IN  IF signal.action = "BUY" /\ ~atr_missing(signal.atr)
             THEN Append(rest, make_position(signal, market))
             ELSE rest

\* Mutant: the return is taken relative to the exit price.
close_position_on_exit_price(position, status, exit_date, exit_price) ==
    [position EXCEPT
        !.status     = status,
        !.exit_date  = Some(exit_date),
        !.exit_price = Some(exit_price),
        !.pct_change = Some(Mul(Div(Sub(exit_price, position.entry_price),
                                    exit_price), Num(100)))]

close_position(position, status, exit_date, exit_price) ==
    [position EXCEPT
        !.status     = status,
        !.exit_date  = Some(exit_date),
        !.exit_price = Some(exit_price),
        !.pct_change = Some(Mul(Div(Sub(exit_price, position.entry_price),
                                    position.entry_price), Num(100)))]

\* Mutant: the stop follows every high, also a lower one.
update_trailing_stop_unguarded(pos, row) ==
    [pos EXCEPT !.max_price = row.High,
                !.stop_loss = Sub(row.High, Mul(Num(ATR_MULTIPLE), pos.atr))]

\* Mutant: a new high is recorded and the stop is left where it was.
update_trailing_stop_keeps_stop(pos, row) ==
    IF Gt(row.High, pos.max_price)
    THEN [pos EXCEPT !.max_price = row.High]
    ELSE pos

\* Mutant: the take-profit level follows a new high as the stop does.
update_trailing_stop_moves_target(pos, row) ==
    IF Gt(row.High, pos.max_price)
    THEN [pos EXCEPT !.max_price = row.High,
                     !.stop_loss = Sub(row.High, Mul(Num(ATR_MULTIPLE), pos.atr)),
                     !.take_profit = Add(row.High, Mul(Num(TAKE_PROFIT_MULTIPLE), pos.atr))]
    ELSE pos

\* Lines 153-155: the trailing stop follows a new high.
update_trailing_stop(pos, row) ==
    IF Gt(row.High, pos.max_price)
    THEN [pos EXCEPT !.max_price = row.High,
                     !.stop_loss = Sub(row.High, Mul(Num(ATR_MULTIPLE), pos.atr))]
    ELSE pos

\* Mutant: the stop-loss is tried before the time expiry.
check_exit_stop_first(pos, row) ==
    IF Le(row.Low, pos.stop_loss)
    THEN close_position(pos, "STOP LOSS", row.Date, pos.stop_loss)
    ELSE IF row.Date > pos.expiry_date
    THEN close_position(pos, "EXIT TIME", row.Date, row.Close)
    ELSE IF Ge(row.High, pos.take_profit)
    THEN close_position(pos, "TAKE PROFIT", row.Date, pos.take_profit)
    ELSE pos

\* Mutant: a stopped position is filled at the row's low.
check_exit_fill_at_low(pos, row) ==
    IF row.Date > pos.expiry_date
    THEN close_position(pos, "EXIT TIME", row.Date, row.Close)
    ELSE IF Le(row.Low, pos.stop_loss)
    THEN close_position(pos, "STOP LOSS", row.Date, row.Low)
    ELSE IF Ge(row.High, pos.take_profit)
    THEN close_position(pos, "TAKE PROFIT", row.Date, pos.take_profit)
    ELSE pos

\* Mutant: the position expires on its expiry date already.
check_exit_expiry_inclusive(pos, row) ==
    IF row.Date >= pos.expiry_date
    THEN close_position(pos, "EXIT TIME", row.Date, row.Close)
    ELSE IF Le(row.Low, pos.stop_loss)
    THEN close_position(pos, "STOP LOSS", row.Date, pos.stop_loss)
    ELSE IF Ge(row.High, pos.take_profit)
    THEN close_position(pos, "TAKE PROFIT", row.Date, pos.take_profit)
    ELSE pos

\* Mutant: the position expires on the first row dated after its entry.
check_exit_expires_after_entry(pos, row) ==
    IF row.Date > pos.entry_date
    THEN close_position(pos, "EXIT TIME", row.Date, row.Close)
    ELSE IF Le(row.Low, pos.stop_loss)
    THEN close_position(pos, "STOP LOSS", row.Date, pos.stop_loss)
    ELSE IF Ge(row.High, pos.take_profit)
    THEN close_position(pos, "TAKE PROFIT", row.Date, pos.take_profit)
    ELSE pos

\* Lines 158-163: the exit conditions in order of priority.
check_exit(pos, row) ==
    IF row.Date > pos.expiry_date
    THEN close_position(pos, "EXIT TIME", row.Date, row.Close)
    ELSE IF Le(row.Low, pos.stop_loss)
    THEN close_position(pos, "STOP LOSS", row.Date, pos.stop_loss)
    ELSE IF Ge(row.High, pos.take_profit)
    THEN close_position(pos, "TAKE PROFIT", row.Date, pos.take_profit)
    ELSE pos

\* Mutant: a closed position is processed like an open one.
step_position_unguarded(pos, row) ==
    check_exit(update_trailing_stop(pos, row), row)

\* Mutant: the exits are tried before the trailing stop is moved.
step_position_exit_first(pos, row) ==
    IF pos.status # "OPEN" THEN pos
    ELSE IF check_exit(pos, row).status # "OPEN" THEN check_exit(pos, row)
    ELSE update_trailing_stop(pos, row)

\* The body of the inner loop for one position and one row.
step_position(pos, row) ==
    IF pos.status # "OPEN" THEN pos
    ELSE check_exit(update_trailing_stop(pos, row), row)

\* Mutant: the inner loop ends at the first position that is not OPEN.
simulate_row_break(poss, row) ==
    [k \in 1..Len(poss) |->
        IF \E j \in 1..(k - 1) : poss[j].status # "OPEN" THEN poss[k]
        ELSE step_position(poss[k], row)]

\* One iteration of the outer loop: every position sees the row.
simulate_row(poss, row) ==
    [k \in 1..Len(poss) |-> step_position(poss[k], row)]

\* simulate_trades(df, positions): the outer loop over the first n rows.
RECURSIVE simulate_rows(_, _, _)
simulate_rows(w, poss, n) ==
    IF n = 0 THEN poss
    ELSE simulate_row(simulate_rows(w, poss, n - 1), w[n])

simulate_trades(w, poss) == simulate_rows(w, poss, Len(w))

(***************************************************************************)
(* validate_and_clean_dataframe: sort by date, keep rows from start_date,  *)
(* drop rows with a missing numeric value, fail when nothing is left.      *)
(***************************************************************************)
row_is_clean(row) ==
    ~IsNaN(row.Close) /\ ~IsNaN(row.High) /\ ~IsNaN(row.Low) /\ ~IsNaN(row.Volume)

validate_and_clean_dataframe(frame, start_date) ==
    LET from_start(row) == row.Date >= start_date
    IN  SelectSeq(SelectSeq(SortByDate(frame), from_start), row_is_clean)

(***************************************************************************)
(* Inputs.  A series is built from a few bar shapes; in a backtest         *)
(* consecutive dates are one day or eleven days (more than EXPIRY_DAYS)    *)
(* apart, and the first bar is dated the day before START_DATE or nine     *)
(* days after it.                                                          *)
(***************************************************************************)
Bar(h, l, c, v) == [High |-> Num(h), Low |-> Num(l), Close |-> Num(c), Volume |-> Num(v)]

QuietBar    == Bar(2, 2, 2, 1)
BreakoutBar == Bar(9, 8, 9, 6)
WideBar     == Bar(8, 1, 5, 9)
MissingBar  == [High |-> NaN, Low |-> NaN, Close |-> NaN, Volume |-> NaN]

TradedShapes == {QuietBar, BreakoutBar, WideBar}
BarShapes    == TradedShapes \cup {MissingBar}
DateGaps  == {1, 11}

Dated(shape, date) ==
    [Date |-> date, High |-> shape.High, Low |-> shape.Low,
     Close |-> shape.Close, Volume |-> shape.Volume]

LastDate(s) == IF s = << >> THEN START_DATE - 2 ELSE s[Len(s)].Date

RECURSIVE SeriesOfLen(_, _, _)
SeriesOfLen(shapes, gaps, n) ==
    IF n = 0 THEN {<< >>}
    ELSE {Append(s, Dated(shape, LastDate(s) + gap)) :
            s \in SeriesOfLen(shapes, gaps, n - 1), shape \in shapes, gap \in gaps}

\* Series given to the detector are consecutive days and may hold rows of
\* missing values; the series of a backtest are complete.
SeriesInputs == UNION {SeriesOfLen(BarShapes, {1}, n) : n \in 0..MaxBars}
TradedSeries == UNION {SeriesOfLen(TradedShapes, DateGaps, n) : n \in 0..MaxBars}

Multipliers   == {Num(m) : m \in 1..MaxMultiplier}
BreakoutDays  == 1..MaxBreakout
MaxDaysOld    == {None} \cup {Some(k) : k \in 1..(MaxBars + 1)}
Markets       == {"USA"}

\* Signals handed to create_positions_from_signals by a caller.
GivenSignal(action, price, atr) ==
    [date |-> START_DATE, action |-> action, price |-> Num(price), atr |-> atr]

SignalInputs ==
    {GivenSignal("BUY", 3, Num(1)), GivenSignal("BUY", 5, Num(2)),
     GivenSignal("BUY", 3, NaN), GivenSignal("SELL", 3, Num(1))}

RECURSIVE SignalListsOfLen(_)
SignalListsOfLen(n) ==
    IF n = 0 THEN {<< >>}
    ELSE UNION {{Append(s, g) : g \in SignalInputs \ {s[k] : k \in 1..Len(s)}} :
                    s \in SignalListsOfLen(n - 1)}

SignalLists == UNION {SignalListsOfLen(n) : n \in 0..MaxSignals}

\* Frames and arguments a caller may hand to analyze_stock without regard to
\* its contract: a column dropped, a text where a number belongs, two rows of
\* one date, an argument that is None, zero or negative.
DropColumn(w, col) ==
    [i \in 1..Len(w) |-> [f \in (DOMAIN w[i]) \ {col} |-> w[i][f]]]
WithText(w, col, i) == [w EXCEPT ![i][col] = Text("n/a")]

WellFormedFrame == << Dated(QuietBar, START_DATE), Dated(BreakoutBar, START_DATE + 1) >>

MalformedFrames ==
    {DropColumn(WellFormedFrame, col) : col \in REQUIRED_COLUMNS}
        \cup {WithText(WellFormedFrame, col, i) :
                    col \in numeric_cols, i \in 1..Len(WellFormedFrame)}

RepeatableGaps == {0, 1}
CallerFrames ==
    MalformedFrames
        \cup UNION {SeriesOfLen({QuietBar, BreakoutBar}, RepeatableGaps, n) : n \in 0..MaxBars}

AnyMultipliers  == {None} \cup {Some(Num(m)) : m \in (-1)..MaxMultiplier}
AnyBreakoutDays == {None} \cup {Some(k) : k \in (-1)..MaxBreakout}
AnyMaxDaysOld   == {None} \cup {Some(k) : k \in (-1)..MaxBars}

\* File names: every string of up to MaxNameLen characters of a small
\* alphabet, and the names the documentation gives as examples.
NameChars == {"A", "L", "N", "S", "n", "s", ".", "_"}
RECURSIVE NamesOfLen(_)
NamesOfLen(n) ==
    IF n = 0 THEN {<< >>}
    ELSE {Append(str, c) : str \in NamesOfLen(n - 1), c \in NameChars}

RELIANCE_NS_5y == << "R", "E", "L", "I", "A", "N", "C", "E", ".", "N", "S", "_", "5", "y" >>
AAPL_5y == << "A", "A", "P", "L", "_", "5", "y" >>
XXXX_ZZ == << "X", "X", "X", "X", ".", "Z", "Z" >>

Filenames ==
    {RELIANCE_NS_5y, AAPL_5y, XXXX_ZZ} \cup UNION {NamesOfLen(n) : n \in 0..MaxNameLen}

\* Series long enough for a full 20-row window: a run of quiet days and a
\* breakout on the row before, at and after the window is first full.
QuietRun(n) == [i \in 1..n |-> Dated(QuietBar, START_DATE + i - 1)]
LongSeries ==
    {Append(QuietRun(n), Dated(BreakoutBar, START_DATE + n)) :
        n \in (LEGACY_WINDOW - 2)..LEGACY_WINDOW}

\* Tickers and downloads for the daily scan: per ticker no frame, a frame
\* without rows, the frame of another ticker, a frame with a text for a
\* volume, a frame of quiet days, or a frame whose last day is a breakout.
Tickers == {"AAA", "BBB"}
RECURSIVE TickerListsOfLen(_)
TickerListsOfLen(n) ==
    IF n = 0 THEN {<< >>}
    ELSE {Append(l, t) : l \in TickerListsOfLen(n - 1), t \in Tickers}
TickerLists == UNION {TickerListsOfLen(n) : n \in 0..MaxTickers}

BreakoutToday == Append(QuietRun(SCAN_BREAKOUT_DAYS), Dated(BreakoutBar, START_DATE + SCAN_BREAKOUT_DAYS))
QuietToday == QuietRun(SCAN_BREAKOUT_DAYS + 1)

FramesFor(t) ==
    {[of |-> t, rows |-> << >>],
     [of |-> t, rows |-> WithText(BreakoutToday, "Volume", 1)],
     [of |-> t, rows |-> QuietToday],
     [of |-> t, rows |-> BreakoutToday]}
        \cup {[of |-> u, rows |-> BreakoutToday] : u \in Tickers \ {t}}

Downloads ==
    UNION {{data \in [S -> UNION {FramesFor(t) : t \in Tickers}] :
                \A t \in S : data[t] \in FramesFor(t)} : S \in SUBSET Tickers}

(***************************************************************************)
(* State.                                                                  *)
(***************************************************************************)
VARIABLES
    df,         \* the caller's series
    pc,         \* "idle", "analyzed", "simulating", "done" or "failed"
    call,       \* the call in progress or last made, with its arguments
    signals,    \* the signals returned by the detector or given by the caller
    frame,      \* the series simulate_trades iterates over
    positions,  \* the positions list
    row         \* number of rows of frame simulate_trades has processed

vars == << df, pc, call, signals, frame, positions, row >>

Idle ==
    /\ pc = "idle"
    /\ call = [op |-> "none"]
    /\ signals = << >>
    /\ frame = << >>
    /\ positions = << >>
    /\ row = 0

Init == df \in TradedSeries /\ Idle

InitDetector == df \in SeriesInputs /\ Idle

\* analyze_stock(df, volume_multiplier, breakout_days, max_days_old)
AnalyzeStock ==
    /\ pc = "idle"
    /\ \E vm \in Multipliers, bd \in BreakoutDays, mdo \in MaxDaysOld :
          LET res == analyze_stock(df, vm, bd, mdo)
          IN  /\ call' = [op |-> "analyze_stock", volume_multiplier |-> vm,
                          breakout_days |-> bd, max_days_old |-> mdo]
              /\ signals' = res.signals
              /\ pc' = IF res.raised # "" THEN "failed" ELSE "analyzed"
    /\ df' = frame_after_analyze(df)
    /\ UNCHANGED << frame, positions, row >>

\* analyze_stock called with any frame and any arguments.
AnalyzeStockCall ==
    /\ pc = "idle"
    /\ \E vm \in AnyMultipliers, bd \in AnyBreakoutDays, mdo \in AnyMaxDaysOld :
          LET res == analyze_stock_call(df, vm, bd, mdo)
          IN  /\ call' = [op |-> "analyze_stock_call", args |-> << vm, bd, mdo >>]
              /\ signals' = res.signals
              /\ pc' = IF res.raised # "" THEN "failed" ELSE "analyzed"
    /\ UNCHANGED << df, frame, positions, row >>

\* get_market_from_filename(filename)
GetMarketFromFilename ==
    /\ pc = "idle"
    /\ \E filename \in Filenames :
          call' = [op |-> "get_market_from_filename", filename |-> filename,
                   market |-> get_market_from_filename(filename)]
    /\ pc' = "done"
    /\ UNCHANGED << df, signals, frame, positions, row >>

\* analyze_stock_backtest(df, volume_multiplier, breakout_days)
AnalyzeStockBacktest ==
    /\ pc = "idle"
    /\ \E vm \in Multipliers, bd \in BreakoutDays :
          LET res == analyze_stock_backtest(df, vm, bd)
          IN  /\ call' = [op |-> "analyze_stock_backtest", volume_multiplier |-> vm,
                          breakout_days |-> bd]
              /\ signals' = res.signals
              /\ pc' = IF res.raised # "" THEN "failed" ELSE "analyzed"
    /\ df' = frame_after_analyze(df)
    /\ UNCHANGED << frame, positions, row >>

\* The legacy analyze_stock(df, volume_multiplier, breakout_days), which stores
\* its ATR column in the caller's frame.
LegacyAnalyzeStock ==
    /\ pc = "idle"
    /\ \E vm \in Multipliers, bd \in BreakoutDays :
          /\ call' = [op |-> "legacy_analyze_stock", volume_multiplier |-> vm,
                      breakout_days |-> bd]
          /\ signals' = legacy_analyze_stock(df, vm, bd).signals
    /\ df' = legacy_frame_after(df)
    /\ pc' = "analyzed"
    /\ UNCHANGED << frame, positions, row >>

\* analyze_tickers_for_signals(tickers, data): entry, one iteration of the loop
\* over tickers, and the return.
AnalyzeTickersForSignals ==
    /\ pc = "idle"
    /\ \E tickers \in TickerLists, data \in Downloads :
          call' = [op |-> "analyze_tickers_for_signals", tickers |-> tickers,
                   data |-> data, done |-> 0]
    /\ signals' = << >>
    /\ pc' = "scanning"
    /\ UNCHANGED << df, frame, positions, row >>

AnalyzeTicker ==
    /\ pc = "scanning"
    /\ call.done < Len(call.tickers)
    /\ signals' = scan_ticker(signals, call.tickers[call.done + 1], call.data)
    /\ call' = [call EXCEPT !.done = @ + 1]
    /\ UNCHANGED << df, pc, frame, positions, row >>

AnalyzeTickersReturn ==
    /\ pc = "scanning"
    /\ call.done = Len(call.tickers)
    /\ pc' = "done"
    /\ UNCHANGED << df, call, signals, frame, positions, row >>

\* process_single_file up to the call of simulate_trades (lines 72-96).
\* The code calls analyze_stock_backtest with its defaults (30 rows, 8.0),
\* which need a series of more than 30 rows to give a signal; here the two
\* parameters are drawn from small sets so that short series give signals.
ProcessSingleFile ==
    /\ pc = "idle"
    /\ \E vm \in Multipliers, bd \in BreakoutDays, market \in Markets :
          LET cleaned == validate_and_clean_dataframe(df, START_DATE)
              res     == analyze_stock_backtest(cleaned, vm, bd)
          IN  /\ call' = [op |-> "process_single_file", volume_multiplier |-> vm,
                          breakout_days |-> bd, max_days_old |-> None]
              /\ IF cleaned = << >>
                 THEN /\ pc' = "failed"
                      /\ UNCHANGED << signals, frame, positions >>
                 ELSE /\ frame' = frame_after_analyze(cleaned)
                      /\ signals' = res.signals
                      /\ IF res.signals = << >>
                         THEN pc' = "done" /\ UNCHANGED positions
                         ELSE /\ pc' = "simulating"
                              /\ positions' = create_positions_from_signals(res.signals, market)
    /\ row' = 0
    /\ UNCHANGED df

\* create_positions_from_signals(sigs, market) by a caller, who then calls
\* simulate_trades(df, positions).
CreatePositions ==
    /\ pc = "idle"
    /\ \E sigs \in SignalLists, market \in Markets :
          /\ call' = [op |-> "create_positions_from_signals"]
          /\ signals' = sigs
          /\ positions' = create_positions_from_signals(sigs, market)
    /\ frame' = df
    /\ row' = 0
    /\ pc' = "simulating"
    /\ UNCHANGED df

\* One iteration of the outer loop of simulate_trades.
SimulateRow ==
    /\ pc = "simulating"
    /\ row < Len(frame)
    /\ positions' = simulate_row(positions, frame[row + 1])
    /\ row' = row + 1
    /\ UNCHANGED << df, pc, call, signals, frame >>

\* simulate_trades returns when the rows are exhausted.
SimulateReturn ==
    /\ pc = "simulating"
    /\ row = Len(frame)
    /\ pc' = "done"
    /\ UNCHANGED << df, call, signals, frame, positions, row >>

Next ==
    \/ ProcessSingleFile
    \/ CreatePositions
    \/ SimulateRow
    \/ SimulateReturn

Spec == Init /\ [][Next]_vars

\* The detector alone, applied to every series.
NextDetector == AnalyzeStock

SpecDetector == InitDetector /\ [][NextDetector]_vars

\* The detector's input checks, applied to every frame and argument list.
InitValidation == df \in CallerFrames /\ Idle

NextValidation == AnalyzeStockCall

SpecValidation == InitValidation /\ [][NextValidation]_vars

\* The market classifier, applied to every file name.
InitClassifier == df = << >> /\ Idle

NextClassifier == GetMarketFromFilename

SpecClassifier == InitClassifier /\ [][NextClassifier]_vars

\* The two detectors of the backtest, each applied to every series.
InitBacktestDetectors == df \in (SeriesInputs \cup LongSeries) /\ Idle

NextBacktestDetectors ==
    \/ AnalyzeStockBacktest
    \/ LegacyAnalyzeStock

SpecBacktestDetectors == InitBacktestDetectors /\ [][NextBacktestDetectors]_vars

\* The daily scan over every list of tickers and every download.
InitTickers == df = << >> /\ Idle

NextTickers ==
    \/ AnalyzeTickersForSignals
    \/ AnalyzeTicker
    \/ AnalyzeTickersReturn

SpecTickers == InitTickers /\ [][NextTickers]_vars

TypeOK ==
    /\ pc \in {"idle", "analyzed", "simulating", "scanning", "done", "failed"}
    /\ row \in 0..Len(frame)

(***************************************************************************)
(* Properties.                                                             *)
(***************************************************************************)
\* A step of the outer loop of simulate_trades, and the row it processes.
SimStep == pc = "simulating" /\ row' = row + 1
CurRow == frame[row + 1]
Simulated == pc \in {"simulating", "done"} /\ call.op # "none"
Terminal == {"STOP LOSS", "TAKE PROFIT", "EXIT TIME"}

\* C1: on every row an OPEN position sees, the exits are tried in the order
\* time expiry, stop-loss, take-profit and the first that holds closes it: a
\* row past expiry always gives EXIT TIME at the row's close, even when the
\* stop-loss and take-profit tests hold too, and a row not past expiry on
\* which both tests hold gives STOP LOSS.
C1_ExitPriority ==
    [][SimStep =>
        \A k \in 1..Len(positions) :
            LET p == positions[k]
                q == positions'[k]
                expired == CurRow.Date > p.expiry_date
                stop    == Le(CurRow.Low, q.stop_loss)
                take    == Ge(CurRow.High, p.take_profit)
            IN  p.status = "OPEN" =>
                  /\ q.status = IF expired THEN "EXIT TIME"
                                ELSE IF stop THEN "STOP LOSS"
                                ELSE IF take THEN "TAKE PROFIT"
                                ELSE "OPEN"
                  /\ expired => q.exit_price = Some(CurRow.Close)
                  /\ (~expired /\ Le(CurRow.Low, p.stop_loss) /\ take)
                        => q.status = "STOP LOSS"]_vars

\* A position closed by time on a row where stop-loss and take-profit held too.
C1_Witness ==
    /\ Simulated /\ row >= 1
    /\ \E k \in 1..Len(positions) :
          /\ positions[k].status = "EXIT TIME"
          /\ positions[k].exit_date = Some(frame[row].Date)
          /\ Le(frame[row].Low, positions[k].stop_loss)
          /\ Ge(frame[row].High, positions[k].take_profit)

\* C2: in a backtest, a row dated strictly before a position's entry_date
\* changes nothing of that position.
C2_NoEffectBeforeEntry ==
    [][(SimStep /\ call.op = "process_single_file") =>
        \A k \in 1..Len(positions) :
            CurRow.Date < positions[k].entry_date => positions'[k] = positions[k]]_vars

\* C3: the stop_loss of a position never lowers from one row to the next.
C3_StopNeverLowers ==
    [][SimStep =>
        \A k \in 1..Len(positions) :
            Le(positions[k].stop_loss, positions'[k].stop_loss)]_vars

\* An open position whose stop has been raised above its initial value.
C3_Witness ==
    /\ Simulated
    /\ \E k \in 1..Len(positions) :
          /\ positions[k].status = "OPEN"
          /\ Gt(positions[k].stop_loss,
                Sub(positions[k].entry_price, Mul(Num(ATR_MULTIPLE), positions[k].atr)))

\* C4: a position that has left OPEN has one of the three terminal statuses
\* and no later row changes any of its fields.
C4_TerminalAbsorbing ==
    [][SimStep =>
        \A k \in 1..Len(positions) :
            /\ positions'[k].status \in Terminal \cup {"OPEN"}
            /\ positions[k].status # "OPEN" =>
                  /\ positions[k].status \in Terminal
                  /\ positions'[k] = positions[k]]_vars

\* A closed position that has seen a row later than the one that closed it.
C4_Witness ==
    /\ Simulated /\ row >= 1
    /\ \E k \in 1..Len(positions) :
          /\ positions[k].status \in Terminal
          /\ positions[k].exit_date[1] < frame[row].Date

\* C5: the row that closes a position sets exit_date to its date and
\* exit_price to the stop_loss (STOP LOSS), the take_profit (TAKE PROFIT) or
\* the row's close (EXIT TIME).
C5_ExitPriceByStatus ==
    [][SimStep =>
        \A k \in 1..Len(positions) :
            LET p == positions[k]
                q == positions'[k]
            IN  (p.status = "OPEN" /\ q.status # "OPEN") =>
                  /\ q.exit_date = Some(CurRow.Date)
                  /\ q.status = "STOP LOSS"   => q.exit_price = Some(q.stop_loss)
                  /\ q.status = "TAKE PROFIT" => q.exit_price = Some(q.take_profit)
                  /\ q.status = "EXIT TIME"   => q.exit_price = Some(CurRow.Close)]_vars

\* A position stopped out on the last row at a price that is not the row's low.
C5_Witness ==
    /\ Simulated /\ row >= 1
    /\ \E k \in 1..Len(positions) :
          /\ positions[k].status = "STOP LOSS"
          /\ positions[k].exit_date = Some(frame[row].Date)
          /\ positions[k].exit_price # Some(frame[row].Low)

\* C6: once a row dated after expiry_date has been processed the position is
\* not OPEN; it was closed by stop-loss or take-profit on an earlier row, or
\* by EXIT TIME on the first row dated after expiry_date at that row's close.
ExpiredRows(p) == {j \in 1..row : frame[j].Date > p.expiry_date}
FirstOf(S) == CHOOSE j \in S : \A i \in S : j <= i

C6_ExpiryCloses ==
    Simulated =>
        \A k \in 1..Len(positions) :
            LET p == positions[k]
            IN  /\ p.status = "EXIT TIME" => ExpiredRows(p) # {}
                /\ ExpiredRows(p) # {} =>
                     LET f == frame[FirstOf(ExpiredRows(p))]
                     IN  /\ p.status # "OPEN"
                         /\ p.status = "EXIT TIME" =>
                               /\ p.exit_date = Some(f.Date)
                               /\ p.exit_price = Some(f.Close)
                         /\ p.status \in {"STOP LOSS", "TAKE PROFIT"} =>
                               p.exit_date[1] < f.Date

\* A position closed by time after an earlier row left it open.
C6_Witness ==
    /\ Simulated /\ row >= 2
    /\ \E k \in 1..Len(positions) :
          /\ positions[k].status = "EXIT TIME"
          /\ positions[k].exit_date = Some(frame[row].Date)

\* C7: with max_days_old = None the detector returns one BUY signal, priced
\* at the close, for exactly the rows c >= breakout_days whose close exceeds
\* the highest high of the breakout_days rows before c and whose volume
\* exceeds avg_volume * volume_multiplier, none of these values nor the atr
\* being missing; a series of at most breakout_days rows gives no signal.
PriorHigh(w, c, bd) ==
    LET highs == {w[j + 1].High : j \in (c - bd)..(c - 1)}
    IN  IF c < bd \/ \E x \in highs : IsNaN(x) THEN NaN
        ELSE CHOOSE x \in highs : \A y \in highs : Le(y, x)

BreakoutRows(w, vm, bd) ==
    LET atr == calculate_atr(w, DEFAULT_ATR_PERIOD) IN
    {c \in 0..(Len(w) - 1) :
        /\ c >= bd
        /\ ~IsNaN(PriorHigh(w, c, bd)) /\ ~IsNaN(w[c + 1].Close)
        /\ ~IsNaN(w[c + 1].Volume) /\ ~IsNaN(avg_volume_at(w, c))
        /\ ~IsNaN(atr[c + 1])
        /\ Gt(w[c + 1].Close, PriorHigh(w, c, bd))
        /\ Gt(w[c + 1].Volume, Mul(avg_volume_at(w, c), vm))}

SignalsAreRows(sigs, w, rows) ==
    /\ Len(sigs) = Cardinality(rows)
    /\ \A c \in rows : \E k \in 1..Len(sigs) :
          /\ sigs[k].date = w[c + 1].Date
          /\ sigs[k].price = w[c + 1].Close
          /\ sigs[k].action = "BUY"

C7_SignalsExactlyBreakouts ==
    (call.op = "analyze_stock" /\ df # << >> /\ call.max_days_old = None) =>
        /\ pc = "analyzed"
        /\ SignalsAreRows(signals, df,
                          BreakoutRows(df, call.volume_multiplier, call.breakout_days))
        /\ Len(df) <= call.breakout_days => signals = << >>

\* An unbounded call that returned a signal and passed over a later row.
C7_Witness ==
    /\ pc = "analyzed" /\ call.max_days_old = None
    /\ signals # << >>
    /\ \E c \in call.breakout_days..(Len(df) - 1) :
          c \notin BreakoutRows(df, call.volume_multiplier, call.breakout_days)

\* C8: with max_days_old = N the detector returns the signals of the
\* unbounded call whose row index is at least total_bars - N, in the same
\* order; with N >= total_bars it returns all of them.
RowOfDate(w, date) == CHOOSE c \in 0..(Len(w) - 1) : w[c + 1].Date = date

Unbounded == analyze_stock(df, call.volume_multiplier, call.breakout_days, None).signals

C8_RecencyFilter ==
    (pc = "analyzed" /\ call.max_days_old # None) =>
        LET N == call.max_days_old[1]
            recent(sig) == RowOfDate(df, sig.date) >= Len(df) - N
        IN  /\ signals = SelectSeq(Unbounded, recent)
            /\ N >= Len(df) => signals = Unbounded

\* A bounded call that left out an older signal of the unbounded result.
C8_Witness ==
    /\ pc = "analyzed" /\ call.max_days_old # None
    /\ Len(signals) < Len(Unbounded)

\* C9: the signals are in ascending date order, no two share a date, and
\* every signal's date is the date of a row of the series.
C9_SignalsAscending ==
    pc = "analyzed" =>
        /\ \A i, j \in 1..Len(signals) : i < j => signals[i].date < signals[j].date
        /\ \A k \in 1..Len(signals) : \E c \in 1..Len(df) : df[c].Date = signals[k].date

\* A call that returned two signals.
C9_Witness == pc = "analyzed" /\ Len(signals) >= 2

\* C10: the positions are, in order, one per signal with action BUY and an
\* atr that is not missing, each OPEN with no exit fields set, max_price at
\* the signal price, stop_loss = price - ATR_MULTIPLE * atr, take_profit =
\* price + TAKE_PROFIT_MULTIPLE * atr and expiry_date = date + EXPIRY_DAYS.
Tradable(sig) == sig.action = "BUY" /\ ~IsNaN(sig.atr)

C10_OnePositionPerSignal ==
    (pc = "simulating" /\ row = 0) =>
        LET eligible == SelectSeq(signals, Tradable)
        IN  /\ Len(positions) = Len(eligible)
            /\ \A k \in 1..Len(positions) :
                  LET p == positions[k]
                      g == eligible[k]
                  IN  /\ p.entry_date = g.date /\ p.entry_price = g.price
                      /\ p.status = "OPEN"
                      /\ p.exit_date = None /\ p.exit_price = None /\ p.pct_change = None
                      /\ p.max_price = g.price
                      /\ p.atr = g.atr
                      /\ Add(p.stop_loss, Mul(Num(ATR_MULTIPLE), g.atr)) = g.price
                      /\ Sub(p.take_profit, Mul(Num(TAKE_PROFIT_MULTIPLE), g.atr)) = g.price
                      /\ p.expiry_date - g.date = EXPIRY_DAYS

\* A list with a skipped signal and a signal that became a position.
C10_Witness ==
    /\ pc = "simulating" /\ row = 0
    /\ Len(positions) >= 1
    /\ Len(positions) < Len(signals)

\* The input faults of a call of analyze_stock.
CallMade == call.op = "analyze_stock_call"
LacksField == df # << >> /\ \E c \in {"Date", "High", "Low", "Close", "Volume"} : c \notin DOMAIN df[1]
HoldsText ==
    /\ df # << >> /\ ~LacksField
    /\ \E i \in 1..Len(df), c \in {"High", "Low", "Close", "Volume"} : "text" \in DOMAIN df[i][c]
BadFrame == df = << >> \/ LacksField \/ HoldsText
BadMultiplier == call.args[1] = None \/ Le(call.args[1][1], Num(0))
BadBreakoutDays == call.args[2] = None \/ call.args[2][1] <= 0
BadMaxDaysOld == call.args[3] # None /\ call.args[3][1] <= 0

\* C11: analyze_stock raises, and returns no signals, when the series is empty,
\* lacks one of Date, High, Low, Close, Volume, holds a non-number in a price
\* or volume column, or when volume_multiplier, breakout_days or max_days_old
\* is zero or negative or one of the first two is None; max_days_old = None
\* is accepted and returns what a bound of the whole series returns.
C11_InputErrors ==
    CallMade =>
        /\ (BadFrame \/ BadMultiplier \/ BadBreakoutDays \/ BadMaxDaysOld)
              => (pc = "failed" /\ signals = << >>)
        /\ (~BadFrame /\ ~BadMultiplier /\ ~BadBreakoutDays /\ call.args[3] = None)
              => /\ pc = "analyzed"
                 /\ signals = analyze_stock(df, call.args[1][1], call.args[2][1],
                                            Some(Len(df))).signals

\* A call refused for a text in a numeric column although its arguments are valid.
C11_Witness ==
    /\ CallMade /\ pc = "failed" /\ HoldsText
    /\ ~BadMultiplier /\ ~BadBreakoutDays /\ ~BadMaxDaysOld

\* A direct call of simulate_trades that has returned.
SimulateReturned == pc = "done" /\ call.op = "create_positions_from_signals"
NoBarFrom(date) == \A i \in 1..Len(frame) : frame[i].Date < date

\* C12: simulate_trades does not return normally when the series is empty or
\* when the series has no bar dated at or after the entry date of one of the
\* positions it is given.
C12_SimulatorRejects ==
    SimulateReturned =>
        /\ frame # << >>
        /\ \A k \in 1..Len(positions) : ~NoBarFrom(positions[k].entry_date)

\* C13: every position has stop_loss = max_price - ATR_MULTIPLE * atr, from its
\* creation through every row and after it is closed, and a row changes
\* stop_loss only when its high is strictly above max_price.
C13_StopTracksHighWater ==
    /\ [](Simulated =>
            \A k \in 1..Len(positions) :
                positions[k].stop_loss =
                    Sub(positions[k].max_price, Mul(Num(ATR_MULTIPLE), positions[k].atr)))
    /\ [][SimStep =>
            \A k \in 1..Len(positions) :
                positions'[k].stop_loss # positions[k].stop_loss
                    => /\ Gt(CurRow.High, positions[k].max_price)
                       /\ positions'[k].max_price = CurRow.High]_vars

\* A closed position whose high-water mark rose above its entry price.
C13_Witness ==
    /\ Simulated
    /\ \E k \in 1..Len(positions) :
          /\ positions[k].status \in Terminal
          /\ Gt(positions[k].max_price, positions[k].entry_price)
          /\ Gt(positions[k].stop_loss,
                Sub(positions[k].entry_price, Mul(Num(ATR_MULTIPLE), positions[k].atr)))

\* C14: exit_date, exit_price and pct_change are None exactly while the
\* position is OPEN, and a closed position has
\* pct_change = (exit_price - entry_price) / entry_price * 100.
C14_ExitFieldsByStatus ==
    Simulated =>
        \A k \in 1..Len(positions) :
            LET p == positions[k]
            IN  /\ p.status \in Terminal \cup {"OPEN"}
                /\ (p.status = "OPEN") <=> (p.exit_date = None)
                /\ (p.status = "OPEN") <=> (p.exit_price = None)
                /\ (p.status = "OPEN") <=> (p.pct_change = None)
                /\ p.status # "OPEN" =>
                      p.pct_change = Some(Mul(Div(Sub(p.exit_price[1], p.entry_price),
                                                  p.entry_price), Num(100)))

\* After the last row one position is closed at a gain and another is OPEN.
C14_Witness ==
    /\ pc = "done" /\ call.op # "none"
    /\ \E k \in 1..Len(positions) :
          positions[k].status \in Terminal /\ Gt(positions[k].pct_change[1], Num(0))
    /\ \E k \in 1..Len(positions) : positions[k].status = "OPEN"

\* C15: no step of simulate_trades, close_position included, changes a
\* position's entry_date, entry_price, take_profit, expiry_date, atr or market.
C15_CreationFieldsKept ==
    [][pc = "simulating" =>
        /\ Len(positions') = Len(positions)
        /\ \A k \in 1..Len(positions) :
              /\ positions'[k].entry_date = positions[k].entry_date
              /\ positions'[k].entry_price = positions[k].entry_price
              /\ positions'[k].take_profit = positions[k].take_profit
              /\ positions'[k].expiry_date = positions[k].expiry_date
              /\ positions'[k].atr = positions[k].atr
              /\ positions'[k].market = positions[k].market]_vars

\* A position closed after its stop was raised, with the levels of its signal.
C15_Witness ==
    /\ pc = "done" /\ call.op = "create_positions_from_signals"
    /\ \E k \in 1..Len(positions) :
          LET p == positions[k]
          IN  /\ p.status = "STOP LOSS"
              /\ Gt(p.max_price, p.entry_price)
              /\ p.take_profit = Add(p.entry_price, Mul(Num(TAKE_PROFIT_MULTIPLE), p.atr))
              /\ p.expiry_date = p.entry_date + EXPIRY_DAYS

\* The signals create_positions_from_signals makes positions of, in order.
Accepted == LET ok(sig) == sig.action = "BUY" /\ ~atr_missing(sig.atr)
            IN  SelectSeq(signals, ok)

\* C16: when simulate_trades has returned, each position is what simulating
\* it alone on the same series gives: its record depends on its own signal
\* and the series, not on the other positions nor on its place in the list.
C16_PositionsIndependent ==
    (pc = "done" /\ call.op # "none" /\ positions # << >>) =>
        /\ Len(positions) = Len(Accepted)
        /\ \A k \in 1..Len(positions) :
              positions[k] =
                  simulate_trades(frame,
                      create_positions_from_signals(<< Accepted[k] >>,
                                                    positions[k].market))[1]

\* Two positions simulated together that ended differently.
C16_Witness ==
    /\ pc = "done" /\ call.op # "none"
    /\ Len(positions) = 2
    /\ positions[1].status = "TAKE PROFIT"
    /\ positions[2].status = "STOP LOSS"
    /\ positions[2].exit_date # positions[1].exit_date

\* The name, its part before the first underscore and that part's text after
\* its last dot, for a call of get_market_from_filename.
Classified == call.op = "get_market_from_filename"
TickerPart ==
    LET f == call.filename
    IN  IF \E i \in 1..Len(f) : f[i] = "_"
        THEN LET i == CHOOSE i \in 1..Len(f) :
                          f[i] = "_" /\ \A j \in 1..(i - 1) : f[j] # "_"
             IN  [j \in 1..(i - 1) |-> f[j]]
        ELSE f
HasDot == \E i \in 1..Len(TickerPart) : TickerPart[i] = "."
Suffix ==
    LET t == TickerPart
        i == CHOOSE i \in 1..Len(t) : t[i] = "." /\ \A j \in (i + 1)..Len(t) : t[j] # "."
    IN  [j \in 1..(Len(t) - i) |-> t[i + j]]
Labels == {MARKET_SUFFIXES[k] : k \in DOMAIN MARKET_SUFFIXES}

\* C17 as stated: the classifier returns a label for every name: USA when the
\* part before the first underscore has no dot, else the table's label for the
\* suffix after the dot, or Unknown when that suffix is not a key of the table.
C17_SuffixLookedUpAsWritten ==
    Classified =>
        call.market = IF ~HasDot THEN "USA"
                      ELSE IF Suffix \in DOMAIN MARKET_SUFFIXES THEN MARKET_SUFFIXES[Suffix]
                      ELSE "Unknown"

\* C17, amended: as above with the suffix taken after the last dot and
\* upper-cased before it is looked up, so that .ns gives India as .NS does;
\* RELIANCE.NS_5y gives India, AAPL_5y gives USA and XXXX.ZZ gives Unknown.
C17_MarketOfFilename ==
    Classified =>
        /\ call.market \in Labels \cup {"USA", "Unknown"}
        /\ call.market =
              IF ~HasDot THEN "USA"
              ELSE IF \E k \in DOMAIN MARKET_SUFFIXES :
                          /\ Len(k) = Len(Suffix)
                          /\ \A j \in 1..Len(k) : k[j] = UpperChar(Suffix[j])
              THEN MARKET_SUFFIXES[CHOOSE k \in DOMAIN MARKET_SUFFIXES :
                          /\ Len(k) = Len(Suffix)
                          /\ \A j \in 1..Len(k) : k[j] = UpperChar(Suffix[j])]
              ELSE "Unknown"
        /\ call.filename = RELIANCE_NS_5y => call.market = "India"
        /\ call.filename = AAPL_5y => call.market = "USA"
        /\ call.filename = XXXX_ZZ => call.market = "Unknown"

\* A name with two dots and a lower-case suffix that is classified by the table.
C17_Witness ==
    /\ Classified /\ HasDot
    /\ Suffix = << "n", "s" >>
    /\ Len(TickerPart) = Len(Suffix) + 2
    /\ TickerPart[1] = "."
    /\ call.market = "India"

\* Two rows of the frame handed to analyze_stock carry one date.
RepeatsDate ==
    /\ df # << >> /\ ~LacksField
    /\ \E i, j \in 1..Len(df) : i # j /\ df[i].Date = df[j].Date

\* C18: analyze_stock raises for a series in which two bars have the same
\* date, instead of scanning it and returning signals.
C18_DuplicateDatesRejected ==
    (CallMade /\ RepeatsDate) => pc = "failed"

\* The true range with no value on the first bar, and its trailing mean.
TrueRangeFromSecondBar(w) ==
    [i \in 1..Len(w) |-> IF i = 1 THEN NaN ELSE true_range(w)[i]]
AtrFromSecondBar(w, i) ==
    RollingMean(TrueRangeFromSecondBar(w), i, DEFAULT_ATR_PERIOD, 1)

\* C19: the true range is missing on the first bar of the series, so the atr
\* of every signal is the mean of the true ranges of the bars from the second
\* one on that lie in its window.
C19_FirstBarOutsideAtr ==
    (pc = "analyzed" /\ call.op = "analyze_stock") =>
        \A k \in 1..Len(signals) :
            signals[k].atr = AtrFromSecondBar(df, RowOfDate(df, signals[k].date) + 1)

\* The fields of a signal the two detectors have in common.
CoreOf(sigs) ==
    [k \in 1..Len(sigs) |-> [date |-> sigs[k].date, action |-> sigs[k].action,
                              price |-> sigs[k].price, atr |-> sigs[k].atr]]

\* C20: for every date-sorted series that is not empty, volume_multiplier and breakout_days,
\* analyze_stock_backtest and the legacy analyze_stock return signals for the
\* same bars, with the same date, action, price and atr.
C20_BacktestEqualsLegacy ==
    /\ (call.op = "analyze_stock_backtest" /\ df # << >>) =>
          CoreOf(signals) =
              legacy_analyze_stock(df, call.volume_multiplier, call.breakout_days).signals
    /\ (call.op = "legacy_analyze_stock" /\ df # << >>) =>
          signals = CoreOf(analyze_stock_backtest(df, call.volume_multiplier,
                                                  call.breakout_days).signals)

EntryStop(p) == Sub(p.entry_price, Mul(Num(ATR_MULTIPLE), p.atr))

\* C22: a row not past expiry whose high is above max_price and whose low is
\* at or below high - ATR_MULTIPLE * atr closes an OPEN position as STOP LOSS
\* at high - ATR_MULTIPLE * atr, also when its low is above the stop the
\* position had before the row.
C22_StopRaisedBeforeExit ==
    [][SimStep =>
        \A k \in 1..Len(positions) :
            LET p == positions[k]
                q == positions'[k]
                raised == Sub(CurRow.High, Mul(Num(ATR_MULTIPLE), p.atr))
            IN  (/\ p.status = "OPEN"
                 /\ Gt(CurRow.High, p.max_price)
                 /\ Le(CurRow.Low, raised)
                 /\ CurRow.Date <= p.expiry_date)
                    => /\ q.status = "STOP LOSS"
                       /\ q.exit_price = Some(raised)
                       /\ q.exit_date = Some(CurRow.Date)
                       /\ q.max_price = CurRow.High]_vars

\* A position stopped on the row that first raised its stop, by a low that was
\* above the stop it was created with.
C22_Witness ==
    /\ Simulated
    /\ \E k \in 1..Len(positions), i \in 1..row :
          LET p == positions[k]
          IN  /\ p.status = "STOP LOSS"
              /\ p.exit_date = Some(frame[i].Date)
              /\ \A j \in 1..(i - 1) : Le(frame[j].High, p.entry_price)
              /\ Gt(frame[i].High, p.entry_price)
              /\ Gt(frame[i].Low, EntryStop(p))
              /\ p.exit_price = Some(Sub(frame[i].High, Mul(Num(ATR_MULTIPLE), p.atr)))

\* C23: a row whose high is not above max_price, whose date is not past
\* expiry_date, whose low is above stop_loss and whose high is below
\* take_profit leaves every field of an OPEN position as it was.
C23_QuietRowNoOp ==
    [][SimStep =>
        \A k \in 1..Len(positions) :
            LET p == positions[k]
            IN  (/\ p.status = "OPEN"
                 /\ Le(CurRow.High, p.max_price)
                 /\ CurRow.Date <= p.expiry_date
                 /\ Gt(CurRow.Low, p.stop_loss)
                 /\ Lt(CurRow.High, p.take_profit))
                    => positions'[k] = p]_vars

\* An OPEN position after a row dated after its entry that met the conditions.
C23_Witness ==
    /\ Simulated /\ row >= 1
    /\ \E k \in 1..Len(positions) :
          LET p == positions[k]
          IN  /\ p.status = "OPEN"
              /\ p.max_price = p.entry_price
              /\ frame[row].Date > p.entry_date
              /\ frame[row].Date <= p.expiry_date
              /\ Le(frame[row].High, p.max_price)
              /\ Gt(frame[row].Low, p.stop_loss)
              /\ Lt(frame[row].High, p.take_profit)

\* C24: in a backtest by process_single_file every closed position has an
\* exit_date that is not earlier than its entry_date.
C24_ExitNotBeforeEntry ==
    (call.op = "process_single_file" /\ pc \in {"simulating", "done"}) =>
        \A k \in 1..Len(positions) :
            positions[k].status \in Terminal
                => positions[k].exit_date[1] >= positions[k].entry_date

\* A scan that has returned, and the tickers of it whose analysis gave a signal.
Scanned == pc = "done" /\ call.op = "analyze_tickers_for_signals"
GaveSignal(t) ==
    /\ t \in DOMAIN call.data
    /\ call.data[t].of = t
    /\ call.data[t].rows # << >>
    /\ analyze_stock(call.data[t].rows, Num(SCAN_VOLUME_MULTIPLIER), SCAN_BREAKOUT_DAYS,
                     Some(SCAN_MAX_DAYS_OLD)).signals # << >>
Failed(t) ==
    /\ t \in DOMAIN call.data
    /\ \/ call.data[t].of # t
       \/ call.data[t].rows = << >>
       \/ \E i \in 1..Len(call.data[t].rows) : "text" \in DOMAIN call.data[t].rows[i].Volume

\* C25 as stated: the scan returns the tickers whose analysis gave a signal,
\* in input order, and no ticker twice.
C25_EachTickerOnce ==
    Scanned =>
        /\ signals = SelectSeq(call.tickers, GaveSignal)
        /\ \A i, j \in 1..Len(signals) : i # j => signals[i] # signals[j]

\* C25, with a ticker listed as often as the input names it: a ticker without
\* data or whose extraction or analysis raises is passed over, the tickers
\* after it are still analyzed, and the scan returns the input list
\* restricted to the tickers whose analysis gave at least one signal.
C25_FailuresIsolated ==
    /\ pc = "scanning" => call.done <= Len(call.tickers)
    /\ Scanned =>
          /\ call.done = Len(call.tickers)
          /\ signals = SelectSeq(call.tickers, GaveSignal)

\* A scan whose first ticker raised and whose later ticker was found.
C25_Witness ==
    /\ Scanned
    /\ Len(call.tickers) >= 2
    /\ Failed(call.tickers[1])
    /\ signals = << call.tickers[Len(call.tickers)] >>

====
